---------------------------- MODULE Spec2Model ----------------------------
(***************************************************************************)
(* Model of the ingestion / retrieval pipeline of contextiq-rag:           *)
(*   services/ingest.py, services/retrieval.py, services/embeddings.py,    *)
(*   utils/pdf_loader.py and the call sites in app.py.                     *)
(*                                                                         *)
(* The external collaborators (embedding provider, vector store, chat      *)
(* model) are modelled by the state they hold and by the outcomes their    *)
(* calls can have.  Every network call is one step of the worker that      *)
(* makes it, so that two workers can interleave between calls.             *)
(***************************************************************************)
EXTENDS Integers, Sequences, FiniteSets, TLC

(***************************************************************************)
(* Bounds of the model.                                                    *)
(***************************************************************************)
MaxDim == 2           \* embedding dimensions are 1..MaxDim
MaxUuid == 3          \* uuid4 tokens that may be drawn in one behaviour
MaxModelChanges == 1  \* times the provider may change its output dimension

Dims == 1..MaxDim
Procs == {"w1", "w2"}
Namespaces == {"latest"}

(***************************************************************************)
(* Text.  A text is a sequence of atoms.  An atom is either a run of       *)
(* whitespace (" ", "\n\n") or a run of non-blank characters; Length gives  *)
(* the number of characters the atom stands for.                           *)
(***************************************************************************)
Whitespace == {" ", "\n\n"}

Length(atom) ==
    CASE atom = " " -> 1
      [] atom = "\n\n" -> 2
      [] atom \in {"s1", "s2"} -> 40
      [] OTHER -> 900

RECURSIVE TextLen(_)
TextLen(text) ==
    IF text = <<>> THEN 0 ELSE Length(Head(text)) + TextLen(Tail(text))

RECURSIVE LStrip(_)
LStrip(text) ==
    IF text # <<>> /\ Head(text) \in Whitespace THEN LStrip(Tail(text)) ELSE text

RECURSIVE RStrip(_)
RStrip(text) ==
    IF text # <<>> /\ text[Len(text)] \in Whitespace
    THEN RStrip(SubSeq(text, 1, Len(text) - 1))
    ELSE text

\* str.strip()
Strip(text) == RStrip(LStrip(text))

RECURSIVE Concat(_)
Concat(texts) ==
    IF texts = <<>> THEN <<>> ELSE Head(texts) \o Concat(Tail(texts))

\* sep.join(texts)
RECURSIVE Join(_, _)
Join(sep, texts) ==
    IF texts = <<>> THEN <<>>
    ELSE IF Len(texts) = 1 THEN Head(texts)
    ELSE Head(texts) \o sep \o Join(sep, Tail(texts))

\* substring test `tok in str(e)` on a message given as a sequence of phrases
Contains(msg, tok) == \E i \in 1..Len(msg) : msg[i] = tok

(***************************************************************************)
(* utils/pdf_loader.py                                                     *)
(***************************************************************************)
\* A document is the sequence of the texts its pages yield; <<>> is a page
\* whose extract_text() is None or "".
DocA == << <<"A1">>, <<"A2">> >>
DocB == << <<"B1">> >>
DocS == << <<"s1">>, <<>>, <<"s2", " ">> >>
DocBlank == << <<>>, <<" ">> >>
Documents == {DocA, DocB, DocS, DocBlank}

load_pdf_text(pdf_bytes) == Join(<<"\n\n">>, pdf_bytes)

(***************************************************************************)
(* RecursiveCharacterTextSplitter(chunk_size, chunk_overlap,               *)
(*   separators=["\n\n", "\n", " ", ""]).split_text, for texts whose       *)
(* pieces between "\n\n" separators are shorter than chunk_size (so that   *)
(* no piece is split further): the pieces, each keeping its leading        *)
(* separator, are merged greedily up to chunk_size with chunk_overlap      *)
(* characters carried over, and every chunk is stripped.                   *)
(***************************************************************************)
chunk_size == 1000
chunk_overlap == 150

\* re.split keeping the separator at the head of the piece that follows it
RECURSIVE SplitKeepSep(_, _, _)
SplitKeepSep(text, cur, out) ==
    IF text = <<>> THEN (IF cur = <<>> THEN out ELSE Append(out, cur))
    ELSE IF Head(text) = "\n\n"
         THEN SplitKeepSep(Tail(text), <<"\n\n">>,
                           IF cur = <<>> THEN out ELSE Append(out, cur))
         ELSE SplitKeepSep(Tail(text), Append(cur, Head(text)), out)

\* _join_docs: the joined and stripped text, or nothing when it is empty
JoinDocs(docs, cur) ==
    LET text == Strip(Concat(cur))
    IN  IF text = <<>> THEN docs ELSE Append(docs, text)

RECURSIVE PopOverlap(_, _, _)
PopOverlap(cur, total, len) ==
    IF total > chunk_overlap \/ (total + len > chunk_size /\ total > 0)
    THEN PopOverlap(Tail(cur), total - TextLen(Head(cur)), len)
    ELSE <<cur, total>>

RECURSIVE MergeSplits(_, _, _, _)
MergeSplits(splits, docs, cur, total) ==
    IF splits = <<>> THEN JoinDocs(docs, cur)
    ELSE LET d == Head(splits)
             len == TextLen(d)
             over == total + len > chunk_size /\ cur # <<>>
             docs2 == IF over THEN JoinDocs(docs, cur) ELSE docs
             kept == IF over THEN PopOverlap(cur, total, len) ELSE <<cur, total>>
         IN  MergeSplits(Tail(splits), docs2, Append(kept[1], d), kept[2] + len)

split_text(text) == MergeSplits(SplitKeepSep(text, <<>>, <<>>), <<>>, <<>>, 0)

(***************************************************************************)
(* Environment variables (os.getenv(..., "")): unset, blank, or set with   *)
(* surrounding whitespace.                                                 *)
(***************************************************************************)
KeyValues == { <<>>, <<" ">>, <<"key", " ">> }
NameValues == { <<>>, <<" ">>, <<" ", "rag">> }

\* f"{index_name}-{dimension}"
SuffixedName(index_name, dimension) == index_name \o <<"-", ToString(dimension)>>

BaseName == <<"rag">>
IndexNames == {BaseName} \cup { SuffixedName(BaseName, d) : d \in Dims }


(***************************************************************************)
(* State.                                                                  *)
(***************************************************************************)
VARIABLES
    env,           \* os.environ: GOOGLE_API_KEY, PINECONE_API_KEY, PINECONE_INDEX_NAME
    providerDim,   \* length of the vectors the embedding provider returns now
    modelChanges,  \* times providerDim has changed
    dimCache,      \* lru_cache of get_embedding_dimension: 0 (empty) or the value
    indexes,       \* vector store: index name -> declared dimension, 0 = no such index
    data,          \* vector store: index name -> namespace -> set of records
    nextUuid,      \* the next fresh uuid4 token
    lastIngest,    \* the call that returned last, when it was a successful ingestion
    proc           \* per worker: position and local variables of the running call

vars == <<env, providerDim, modelChanges, dimCache, indexes, data, nextUuid,
          lastIngest, proc>>

NoError == <<>>

NoIngest == [pdf_bytes |-> <<>>, namespace |-> "", replace_namespace |-> FALSE,
             index |-> <<>>]

EmptyData == [n \in IndexNames |-> [ns \in Namespaces |-> {}]]

IdleProc ==
    [pc |-> "idle", op |-> "none",
     pdf_bytes |-> <<>>, namespace |-> "latest", replace_namespace |-> FALSE,
     contexts |-> <<>>,
     chunks |-> <<>>, dimension |-> 0, existing |-> {}, chosen_name |-> <<>>,
     index |-> <<>>, payload |-> {}, query |-> "", query_vector |-> 0,
     matches |-> {}, answer |-> "", msg |-> NoError, error |-> NoError,
     calls |-> <<>>, before |-> EmptyData]

\* Calls that go over the network.
NetworkCalls ==
    {"embed_query", "embed_documents", "list_indexes", "describe_index",
     "create_index", "delete", "upsert", "query", "invoke"}

Fail(r, err) == [r EXCEPT !.pc = "failed", !.error = err]

Log(r, call) == [r EXCEPT !.calls = Append(@, call)]

Init ==
    /\ env \in [GOOGLE_API_KEY : KeyValues, PINECONE_API_KEY : KeyValues,
                PINECONE_INDEX_NAME : NameValues]
    /\ providerDim \in Dims
    /\ modelChanges = 0
    /\ dimCache = 0
    /\ indexes \in { f \in [IndexNames -> 0..MaxDim] :
                        \A n \in IndexNames \ {BaseName} : f[n] = 0 }
    /\ data = EmptyData
    /\ nextUuid = 1
    /\ lastIngest = NoIngest
    /\ proc = [p \in Procs |-> IdleProc]

(***************************************************************************)
(* services/embeddings.py                                                  *)
(***************************************************************************)
\* get_embedding_model: the error it raises, or NoError
get_embedding_model(e) ==
    IF Strip(e.GOOGLE_API_KEY) = <<>>
    THEN <<"ValueError", "GOOGLE_API_KEY is not set">>
    ELSE NoError

\* the position after get_embedding_dimension has returned
AfterDimension(r) == IF r.op = "ingest" THEN "config" ELSE "list"

\* a plausible slip: the function is left without its lru_cache decorator
get_embedding_dimension_uncached(p) ==
    LET r == proc[p]
    IN  /\ r.pc = "dim"
        /\ proc' = [proc EXCEPT ![p] =
              IF get_embedding_model(env) # NoError
              THEN Fail(r, get_embedding_model(env))
              ELSE [r EXCEPT !.pc = "probe"]]
        /\ UNCHANGED <<env, providerDim, modelChanges, dimCache, indexes, data, nextUuid, lastIngest>>

\* get_embedding_dimension up to the probe request: a cache hit returns the
\* cached value, a miss builds the client and goes on to the probe.
get_embedding_dimension(p) ==
    LET r == proc[p]
    IN  /\ r.pc = "dim"
        /\ proc' = [proc EXCEPT ![p] =
              IF dimCache # 0
              THEN [r EXCEPT !.dimension = dimCache, !.pc = AfterDimension(r)]
              ELSE IF get_embedding_model(env) # NoError
                   THEN Fail(r, get_embedding_model(env))
                   ELSE [r EXCEPT !.pc = "probe"]]
        /\ UNCHANGED <<env, providerDim, modelChanges, dimCache, indexes, data, nextUuid, lastIngest>>

\* embeddings.embed_query("dimension probe"); len(vector) is cached on return
dimension_probe(p) ==
    LET r == Log(proc[p], "embed_query")
    IN  /\ proc[p].pc = "probe"
        /\ \/ /\ dimCache' = providerDim
              /\ proc' = [proc EXCEPT ![p] =
                    [r EXCEPT !.dimension = providerDim, !.pc = AfterDimension(r)]]
           \/ /\ proc' = [proc EXCEPT ![p] = Fail(r, <<"ProviderRequestError">>)]
              /\ UNCHANGED dimCache
        /\ UNCHANGED <<env, providerDim, modelChanges, indexes, data, nextUuid, lastIngest>>

\* The provider starts to return vectors of another length.
ProviderModelChange ==
    /\ modelChanges < MaxModelChanges
    /\ \E d \in Dims \ {providerDim} : providerDim' = d
    /\ modelChanges' = modelChanges + 1
    /\ UNCHANGED <<env, dimCache, indexes, data, nextUuid, lastIngest, proc>>

(***************************************************************************)
(* _get_pinecone_index (services/ingest.py and services/retrieval.py).     *)
(***************************************************************************)
\* the configuration checks at the head of _get_pinecone_index (ingest.py)
ingest_config_error(e) ==
    IF Strip(e.PINECONE_API_KEY) = <<>>
    THEN <<"ValueError", "PINECONE_API_KEY is not set">>
    ELSE IF Strip(e.PINECONE_INDEX_NAME) = <<>>
         THEN <<"ValueError", "PINECONE_INDEX_NAME is not set">>
         ELSE NoError

\* the configuration checks at the head of _get_pinecone_index (retrieval.py)
retrieval_config_error(e) ==
    IF Strip(e.PINECONE_API_KEY) = <<>>
    THEN <<"ValueError", "PINECONE_API_KEY is not set">>
    ELSE IF Strip(e.PINECONE_INDEX_NAME) = <<>>
         THEN <<"ValueError", "PINECONE_INDEX_NAME is not set">>
         ELSE NoError

\* the name chosen in ingest.py; existing_dim = 0 stands for None
ingest_chosen_name(index_name, dimension, existing, existing_dim) ==
    IF index_name \in existing
    THEN IF existing_dim # 0 /\ existing_dim # dimension
         THEN SuffixedName(index_name, dimension)
         ELSE index_name
    ELSE SuffixedName(index_name, dimension)

\* the name chosen in retrieval.py; existing_dim = 0 stands for None
retrieval_chosen_name(index_name, dimension, existing, existing_dim) ==
    IF index_name \in existing
    THEN IF existing_dim # 0 /\ existing_dim # dimension
         THEN SuffixedName(index_name, dimension)
         ELSE index_name
    ELSE SuffixedName(index_name, dimension)

chosen_name_of(r, existing, existing_dim) ==
    IF r.op = "ingest"
    THEN ingest_chosen_name(Strip(env.PINECONE_INDEX_NAME), r.dimension,
                            existing, existing_dim)
    ELSE retrieval_chosen_name(Strip(env.PINECONE_INDEX_NAME), r.dimension,
                               existing, existing_dim)

\* _describe_dim: the outcomes of pc.describe_index(name); 0 stands for None
\* (the request failed, or the description carries no dimension)
describe_dim(name) == {indexes[name], 0}

\* ingest.py: the configuration checks run after the dimension is known
ingest_get_pinecone_index(p) ==
    LET r == proc[p]
    IN  /\ r.pc = "config"
        /\ proc' = [proc EXCEPT ![p] =
              IF ingest_config_error(env) # NoError
              THEN Fail(r, ingest_config_error(env))
              ELSE [r EXCEPT !.pc = "list"]]
        /\ UNCHANGED <<env, providerDim, modelChanges, dimCache, indexes, data, nextUuid, lastIngest>>

\* existing = {idx["name"] for idx in pc.list_indexes()}
list_indexes(p) ==
    LET r == Log(proc[p], "list_indexes")
        existing == { n \in IndexNames : indexes[n] # 0 }
        index_name == Strip(env.PINECONE_INDEX_NAME)
        chosen == chosen_name_of(r, existing, 0)
    IN  /\ proc[p].pc = "list"
        /\ \/ proc' = [proc EXCEPT ![p] =
                 IF index_name \in existing
                 THEN [r EXCEPT !.existing = existing, !.pc = "describe"]
                 ELSE [r EXCEPT !.existing = existing, !.chosen_name = chosen,
                                !.pc = IF chosen \in existing THEN "sanity"
                                                              ELSE "create"]]
           \/ proc' = [proc EXCEPT ![p] = Fail(r, <<"PineconeException">>)]
        /\ UNCHANGED <<env, providerDim, modelChanges, dimCache, indexes, data, nextUuid, lastIngest>>

\* existing_dim = _describe_dim(index_name), and the choice of chosen_name
describe_base(p) ==
    LET r == Log(proc[p], "describe_index")
        index_name == Strip(env.PINECONE_INDEX_NAME)
    IN  /\ proc[p].pc = "describe"
        /\ \E existing_dim \in describe_dim(index_name) :
              LET chosen == chosen_name_of(r, r.existing, existing_dim)
              IN  proc' = [proc EXCEPT ![p] =
                     [r EXCEPT !.chosen_name = chosen,
                               !.pc = IF chosen \in r.existing THEN "sanity"
                                                               ELSE "create"]]
        /\ UNCHANGED <<env, providerDim, modelChanges, dimCache, indexes, data, nextUuid, lastIngest>>

\* pc.create_index(name=chosen_name, dimension=dimension, ...)
create_index(p) ==
    LET r == Log(proc[p], "create_index")
    IN  /\ proc[p].pc = "create"
        /\ \/ /\ indexes[r.chosen_name] = 0
              /\ indexes' = [indexes EXCEPT ![r.chosen_name] = r.dimension]
              /\ proc' = [proc EXCEPT ![p] = [r EXCEPT !.pc = "sanity"]]
           \/ /\ indexes[r.chosen_name] # 0
              /\ proc' = [proc EXCEPT ![p] =
                    Fail(r, <<"PineconeException", "(409)", "ALREADY_EXISTS">>)]
              /\ UNCHANGED indexes
           \/ /\ proc' = [proc EXCEPT ![p] = Fail(r, <<"PineconeException">>)]
              /\ UNCHANGED indexes
        /\ UNCHANGED <<env, providerDim, modelChanges, dimCache, data, nextUuid, lastIngest>>

\* a plausible slip: the replace_namespace flag is not honoured
AfterIndex_never_replaces(r) ==
    IF r.op = "ingest" THEN "embed" ELSE "embed_query"

\* the position after _get_pinecone_index has returned the handle
AfterIndex(r) ==
    IF r.op = "ingest"
    THEN (IF r.replace_namespace THEN "delete" ELSE "embed")
    ELSE "embed_query"

\* actual_dim = _describe_dim(chosen_name), the mismatch check, pc.Index(chosen_name)
sanity_check(p) ==
    LET r == Log(proc[p], "describe_index")
    IN  /\ proc[p].pc = "sanity"
        /\ \E actual_dim \in describe_dim(r.chosen_name) :
              proc' = [proc EXCEPT ![p] =
                 IF actual_dim # 0 /\ actual_dim # r.dimension
                 THEN Fail(r, <<"ValueError", "dimension mismatch">>)
                 ELSE [r EXCEPT !.index = r.chosen_name, !.pc = AfterIndex(r)]]
        /\ UNCHANGED <<env, providerDim, modelChanges, dimCache, indexes, data, nextUuid, lastIngest>>

(***************************************************************************)
(* ingest_pdf_bytes (services/ingest.py).                                  *)
(***************************************************************************)
Min(a, b) == IF a < b THEN a ELSE b

\* uuid4 tokens still to be drawn by the ingestions under way
RECURSIVE PendingUuids(_)
PendingUuids(ps) ==
    IF ps = {} THEN 0
    ELSE LET q == CHOOSE x \in ps : TRUE
         IN  (IF proc[q].op = "ingest" /\ proc[q].pc \notin {"upsert", "done", "failed"}
              THEN Len(proc[q].chunks) ELSE 0) + PendingUuids(ps \ {q})

\* a plausible slip: `if not raw_text:`
no_extractable_text_unstripped(raw_text) == raw_text = <<>>

\* `not raw_text.strip()`
no_extractable_text(raw_text) == Strip(raw_text) = <<>>

\* load_pdf_text, the blank-text check, split_text and get_embedding_model
ingest_pdf_bytes(p, pdf_bytes, namespace, replace_namespace) ==
    LET raw_text == load_pdf_text(pdf_bytes)
        chunks == split_text(raw_text)
        r0 == [IdleProc EXCEPT !.op = "ingest", !.pdf_bytes = pdf_bytes,
                               !.namespace = namespace,
                               !.replace_namespace = replace_namespace,
                               !.before = data, !.calls = <<"load_pdf_text">>]
        r1 == [Log(r0, "split_text") EXCEPT !.chunks = chunks]
    IN  /\ proc[p].pc = "idle"
        /\ nextUuid - 1 + PendingUuids(Procs) + Len(chunks) <= MaxUuid
        /\ proc' = [proc EXCEPT ![p] =
              IF no_extractable_text(raw_text)
              THEN Fail(r0, <<"ValueError", "No extractable text found in PDF">>)
              ELSE IF get_embedding_model(env) # NoError
                   THEN Fail(r1, get_embedding_model(env))
                   ELSE [r1 EXCEPT !.pc = "dim"]]
        /\ UNCHANGED <<env, providerDim, modelChanges, dimCache, indexes, data, nextUuid, lastIngest>>

\* str(e) of the exceptions index.delete can raise
NotFoundMessages ==
    { <<"(404)", "Reason: Not Found", "Namespace not found">>,
      <<"(404)", "Reason: Not Found">>,
      <<"Namespace not found">> }

OtherMessages ==
    { <<"(500)", "Reason: Internal Server Error">>, <<"Connection timed out">> }

\* a plausible slip: `or` for `and` in the test that re-raises
delete_error_ignored_both(msg) ==
    ~ (~ Contains(msg, "Namespace not found") \/ ~ Contains(msg, "(404)"))

\* the except clause around index.delete: TRUE when the exception is swallowed
delete_error_ignored(msg) ==
    ~ (~ Contains(msg, "Namespace not found") /\ ~ Contains(msg, "(404)"))

\* what index.delete(delete_all=True, namespace=...) can raise, NoError = none
DeleteOutcomes(records) ==
    (IF records = {} THEN NotFoundMessages ELSE {}) \cup OtherMessages \cup {NoError}

\* a plausible slip: the call is made without delete_all=True
Deleted_nothing(records) == records

\* the namespace after a successful index.delete(delete_all=True, ...)
Deleted(records) == {}

\* index.delete(delete_all=True, namespace=namespace) and its except clause
delete_namespace(p) ==
    LET r == Log(proc[p], "delete")
    IN  /\ proc[p].pc = "delete"
        /\ \E e \in DeleteOutcomes(data[r.index][r.namespace]) :
              IF e = NoError
              THEN /\ data' = [data EXCEPT ![r.index][r.namespace] = Deleted(@)]
                   /\ proc' = [proc EXCEPT ![p] = [r EXCEPT !.pc = "embed"]]
              ELSE /\ UNCHANGED data
                   /\ proc' = [proc EXCEPT ![p] =
                         IF delete_error_ignored(e)
                         THEN [r EXCEPT !.msg = e, !.pc = "embed"]
                         ELSE Fail([r EXCEPT !.msg = e], e)]
        /\ UNCHANGED <<env, providerDim, modelChanges, dimCache, indexes, nextUuid, lastIngest>>

\* a plausible slip: the id is built without the uuid4 token
Payload_without_uuid(namespace, chunks, vectors, uuid) ==
    { [id |-> <<namespace, 0, i>>,
       values |-> vectors[i + 1],
       metadata |-> [text |-> chunks[i + 1]]] :
         i \in 0..(Min(Len(chunks), Len(vectors)) - 1) }

\* the (id, vector, metadata) tuples built from zip(chunks, vectors)
Payload(namespace, chunks, vectors, uuid) ==
    { [id |-> <<namespace, uuid + i, i>>,
       values |-> vectors[i + 1],
       metadata |-> [text |-> chunks[i + 1]]] :
         i \in 0..(Min(Len(chunks), Len(vectors)) - 1) }

\* vectors = embed_texts(embeddings, chunks), then the payload loop
embed_texts(p) ==
    LET r == Log(proc[p], "embed_documents")
        vectors == [i \in 1..Len(r.chunks) |-> [dim |-> providerDim, of |-> r.chunks[i]]]
    IN  /\ proc[p].pc = "embed"
        /\ \/ /\ proc' = [proc EXCEPT ![p] =
                    [r EXCEPT !.payload = Payload(r.namespace, r.chunks, vectors, nextUuid),
                              !.pc = "upsert"]]
              /\ nextUuid' = nextUuid + Len(r.chunks)
           \/ /\ proc' = [proc EXCEPT ![p] = Fail(r, <<"ProviderRequestError">>)]
              /\ UNCHANGED nextUuid
        /\ UNCHANGED <<env, providerDim, modelChanges, dimCache, indexes, data, lastIngest>>

\* the store after upsert: records are keyed by id
Upserted(records, payload) ==
    { x \in records : \A y \in payload : y.id # x.id } \cup payload

\* index.upsert(vectors=payload, namespace=namespace)
upsert(p) ==
    LET r == Log(proc[p], "upsert")
    IN  /\ proc[p].pc = "upsert"
        /\ \/ /\ \A y \in r.payload : y.values.dim = indexes[r.index]
              /\ data' = [data EXCEPT ![r.index][r.namespace] = Upserted(@, r.payload)]
              /\ proc' = [proc EXCEPT ![p] = [r EXCEPT !.pc = "done"]]
           \/ /\ \E y \in r.payload : y.values.dim # indexes[r.index]
              /\ proc' = [proc EXCEPT ![p] =
                    Fail(r, <<"PineconeException", "(400)", "dimension does not match">>)]
              /\ UNCHANGED data
           \/ /\ proc' = [proc EXCEPT ![p] = Fail(r, <<"PineconeException">>)]
              /\ UNCHANGED data
        /\ UNCHANGED <<env, providerDim, modelChanges, dimCache, indexes, nextUuid, lastIngest>>

(***************************************************************************)
(* retrieve_chunks and generate_answer (services/retrieval.py).            *)
(***************************************************************************)
top_k == 5

Queries == {"What color is the sky?", ""}

\* app.py builds the embeddings client, then retrieve_chunks enters
\* _get_pinecone_index, whose configuration checks come first.
retrieve_chunks(p, query, namespace) ==
    LET r == [IdleProc EXCEPT !.op = "retrieve", !.query = query,
                              !.namespace = namespace, !.before = data]
    IN  /\ proc[p].pc = "idle"
        /\ proc' = [proc EXCEPT ![p] =
              IF get_embedding_model(env) # NoError
              THEN Fail(r, get_embedding_model(env))
              ELSE IF retrieval_config_error(env) # NoError
                   THEN Fail(r, retrieval_config_error(env))
                   ELSE [r EXCEPT !.pc = "dim"]]
        /\ UNCHANGED <<env, providerDim, modelChanges, dimCache, indexes, data, nextUuid, lastIngest>>

\* query_vector = embed_query(embeddings, query)
embed_query(p) ==
    LET r == Log(proc[p], "embed_query")
    IN  /\ proc[p].pc = "embed_query"
        /\ \/ proc' = [proc EXCEPT ![p] =
                 [r EXCEPT !.query_vector = providerDim, !.pc = "query"]]
           \/ proc' = [proc EXCEPT ![p] = Fail(r, <<"ProviderRequestError">>)]
        /\ UNCHANGED <<env, providerDim, modelChanges, dimCache, indexes, data, nextUuid, lastIngest>>

\* index.query(vector, top_k, include_metadata=True, namespace): any top_k of
\* the records of the namespace (all of them when there are no more than top_k)
query_index(p) ==
    LET r == Log(proc[p], "query")
        records == data[r.index][r.namespace]
    IN  /\ proc[p].pc = "query"
        /\ \/ /\ r.query_vector = indexes[r.index]
              /\ \E matches \in SUBSET records :
                    /\ Cardinality(matches) = Min(top_k, Cardinality(records))
                    /\ proc' = [proc EXCEPT ![p] =
                          [r EXCEPT !.matches = matches, !.pc = "done"]]
           \/ /\ r.query_vector # indexes[r.index]
              /\ proc' = [proc EXCEPT ![p] =
                    Fail(r, <<"PineconeException", "(400)", "dimension does not match">>)]
           \/ proc' = [proc EXCEPT ![p] = Fail(r, <<"PineconeException">>)]
        /\ UNCHANGED <<env, providerDim, modelChanges, dimCache, indexes, data, nextUuid, lastIngest>>

\* _get_llm: the error it raises, or NoError
get_llm(e) ==
    IF Strip(e.GOOGLE_API_KEY) = <<>>
    THEN <<"ValueError", "GOOGLE_API_KEY is not set">>
    ELSE NoError

Fallback == "I could not find relevant context in the document."

ContextLists == { <<>>, << <<"A1">> >>, << <<"A1">>, <<"B1">> >> }

\* generate_answer up to llm.invoke
generate_answer(p, query, contexts) ==
    LET r == [IdleProc EXCEPT !.op = "answer", !.query = query,
                              !.contexts = contexts, !.before = data]
    IN  /\ proc[p].pc = "idle"
        /\ proc' = [proc EXCEPT ![p] =
              IF get_llm(env) # NoError
              THEN Fail(r, get_llm(env))
              ELSE IF contexts = <<>>
                   THEN [r EXCEPT !.answer = Fallback, !.pc = "done"]
                   ELSE [r EXCEPT !.pc = "invoke"]]
        /\ UNCHANGED <<env, providerDim, modelChanges, dimCache, indexes, data, nextUuid, lastIngest>>

\* response = llm.invoke(prompt); return response.content
llm_invoke(p) ==
    LET r == Log(proc[p], "invoke")
    IN  /\ proc[p].pc = "invoke"
        /\ \/ proc' = [proc EXCEPT ![p] =
                 [r EXCEPT !.answer = "response.content", !.pc = "done"]]
           \/ proc' = [proc EXCEPT ![p] = Fail(r, <<"ProviderRequestError">>)]
        /\ UNCHANGED <<env, providerDim, modelChanges, dimCache, indexes, data, nextUuid, lastIngest>>

\* the call returns or raises to its caller
Return(p) ==
    LET r == proc[p]
    IN  /\ r.pc \in {"done", "failed"}
        /\ proc' = [proc EXCEPT ![p] = IdleProc]
        /\ lastIngest' =
              IF r.op = "ingest" /\ r.pc = "done"
              THEN [pdf_bytes |-> r.pdf_bytes, namespace |-> r.namespace,
                    replace_namespace |-> r.replace_namespace, index |-> r.index]
              ELSE NoIngest
        /\ UNCHANGED <<env, providerDim, modelChanges, dimCache, indexes, data, nextUuid>>

(***************************************************************************)
(* Specifications.                                                         *)
(***************************************************************************)
\* a call starts
Call(p) ==
    \/ \E d \in Documents, ns \in Namespaces, rep \in BOOLEAN :
          ingest_pdf_bytes(p, d, ns, rep)
    \/ \E q \in Queries, ns \in Namespaces : retrieve_chunks(p, q, ns)
    \/ \E q \in Queries, c \in ContextLists : generate_answer(p, q, c)

\* a call under way takes its next step
Step(p) ==
    \/ get_embedding_dimension(p)
    \/ dimension_probe(p)
    \/ ingest_get_pinecone_index(p)
    \/ list_indexes(p)
    \/ describe_base(p)
    \/ create_index(p)
    \/ sanity_check(p)
    \/ delete_namespace(p)
    \/ embed_texts(p)
    \/ upsert(p)
    \/ embed_query(p)
    \/ query_index(p)
    \/ llm_invoke(p)
    \/ Return(p)

\* one call at a time (the request-per-operation model of the app)
\* (the workers are interchangeable: a call that finds every worker idle is
\* taken by the first)
SeqCall ==
    \E p \in Procs :
       /\ \A q \in Procs : proc[q].pc = "idle"
       /\ p = CHOOSE w \in Procs : TRUE
       /\ Call(p)

\* two workers handle uploads of the documents A and B at the same time; each
\* upload is ingested as app.py does it, with replace_namespace=True
ConcCall ==
    \E p \in Procs, d \in {DocA, DocB}, ns \in Namespaces :
       ingest_pdf_bytes(p, d, ns, TRUE)

\* the steps of ingest_pdf_bytes
IngestStep(p) ==
    \/ get_embedding_dimension(p)
    \/ dimension_probe(p)
    \/ ingest_get_pinecone_index(p)
    \/ list_indexes(p)
    \/ describe_base(p)
    \/ create_index(p)
    \/ sanity_check(p)
    \/ delete_namespace(p)
    \/ embed_texts(p)
    \/ upsert(p)
    \/ Return(p)

Steps == \E p \in Procs : Step(p)

Next == SeqCall \/ Steps \/ ProviderModelChange

Spec == Init /\ [][Next]_vars

IngestSteps == \E p \in Procs : IngestStep(p)

NextConc == ConcCall \/ IngestSteps

\* Dimensions matter to the store only through equality, so the overlapping
\* uploads are explored for one provider dimension; the base index may be
\* absent, of that dimension, or of another.
InitConc == Init /\ providerDim = 1

SpecConc == InitConc /\ [][NextConc]_vars

(***************************************************************************)
(* Properties.                                                             *)
(***************************************************************************)
\* a text with no character other than whitespace
IsBlank(text) == \A i \in 1..Len(text) : text[i] \in Whitespace

\* the records of the namespace the call of worker p addresses, now and
\* when the call began
Now(p) == data[proc[p].index][proc[p].namespace]
Before(p) == proc[p].before[proc[p].index][proc[p].namespace]

LastCall(r) == IF r.calls = <<>> THEN "" ELSE r.calls[Len(r.calls)]

\* C1: with replace_namespace=True, when the batch embedding call fails, the
\* records that were in the namespace before the call are all still there.
C1_EmbeddingFailureKeepsNamespace ==
    \A p \in Procs :
       LET r == proc[p]
       IN  (r.op = "ingest" /\ r.replace_namespace /\ r.pc = "failed"
            /\ LastCall(r) = "embed_documents")
           => Before(p) \subseteq Now(p)

\* C2: a document whose extracted text is empty or whitespace-only fails
\* with the no-extractable-text error after load_pdf_text alone: no chunking,
\* no network call, and the store is what it was before the call.
C2_BlankTextFailsUntouched ==
    \A p \in Procs :
       LET r == proc[p]
       IN  (r.op = "ingest" /\ IsBlank(load_pdf_text(r.pdf_bytes)))
           => /\ r.pc = "failed"
              /\ r.error = <<"ValueError", "No extractable text found in PDF">>
              /\ r.calls = <<"load_pdf_text">>
              /\ r.chunks = <<>>
              /\ data = r.before

\* C2 witness: a blank document was refused while the namespace held records
C2_Witness ==
    \E p \in Procs :
       /\ proc[p].op = "ingest" /\ proc[p].pc = "failed"
       /\ proc[p].pdf_bytes = DocBlank
       /\ proc[p].replace_namespace
       /\ \E n \in IndexNames : data[n][proc[p].namespace] # {}

\* C3: when an ingestion with replace_namespace=True has succeeded (calls
\* running one at a time), the namespace holds exactly one record per chunk
\* of the document, each with that chunk's text, and none of the records
\* that were there before.
C3_ReplaceLeavesExactlyNewDocument ==
    \A p \in Procs :
       LET r == proc[p]
           chunks == split_text(load_pdf_text(r.pdf_bytes))
       IN  (r.op = "ingest" /\ r.replace_namespace /\ r.pc = "done")
           => /\ Cardinality(Now(p)) = Len(chunks)
              /\ \A i \in 1..Len(chunks) :
                    \E x \in Now(p) : x.id[3] = i - 1 /\ x.metadata.text = chunks[i]
              /\ Now(p) \cap Before(p) = {}

\* C3 witness: a two-chunk document has replaced another document's records
C3_Witness ==
    \E p \in Procs :
       /\ proc[p].op = "ingest" /\ proc[p].replace_namespace /\ proc[p].pc = "done"
       /\ Len(proc[p].chunks) = 2
       /\ \E x \in Before(p) : \A i \in 1..2 : x.metadata.text # proc[p].chunks[i]

\* C4: a handle returned by _get_pinecone_index (ingestion or retrieval) is
\* a handle to an index whose actual dimension is the embedding dimension.
C4_HandleHasEmbeddingDimension ==
    \A p \in Procs :
       proc[p].index # <<>> => indexes[proc[p].index] = proc[p].dimension

\* C5: the resolved name follows the decision table on the base index (same
\* dimension: base name; other dimension: suffixed name and the base index is
\* left alone; no base index: suffixed name), and create_index is called only
\* for a resolved name that was not listed.
C5_ResolutionDecisionTable ==
    \A p \in Procs :
       LET r == proc[p]
           base == Strip(env.PINECONE_INDEX_NAME)
       IN  r.chosen_name # <<>>
           => /\ indexes[base] = r.dimension => r.chosen_name = base
              /\ indexes[base] \notin {0, r.dimension}
                    => /\ r.chosen_name = SuffixedName(base, r.dimension)
                       /\ data[base] = r.before[base]
              /\ indexes[base] = 0
                    => r.chosen_name = SuffixedName(base, r.dimension)
              /\ Contains(r.calls, "create_index") => r.chosen_name \notin r.existing

\* C6: generate_answer(query, []) ends in the fallback string, without a
\* call to the generation provider, whatever the configuration.
C6_EmptyContextsGiveFallback ==
    \A p \in Procs :
       (proc[p].op = "answer" /\ proc[p].contexts = <<>>)
       => /\ proc[p].pc = "done"
          /\ proc[p].answer = Fallback
          /\ ~ Contains(proc[p].calls, "invoke")

ConfigurationErrors ==
    { <<"ValueError", "GOOGLE_API_KEY is not set">>,
      <<"ValueError", "PINECONE_API_KEY is not set">>,
      <<"ValueError", "PINECONE_INDEX_NAME is not set">> }

\* C7: when ingest_pdf_bytes or retrieve_chunks fails with a configuration
\* error, no network call has been made before the failure.
C7_ConfigurationErrorBeforeNetwork ==
    \A p \in Procs :
       (proc[p].op \in {"ingest", "retrieve"} /\ proc[p].pc = "failed"
        /\ proc[p].error \in ConfigurationErrors)
       => \A i \in 1..Len(proc[p].calls) : proc[p].calls[i] \notin NetworkCalls

\* number of records carrying the text t, and number of chunks equal to t
Count(records, t) == Cardinality({ x \in records : x.metadata.text = t })
ChunkCount(chunks, t) == Cardinality({ i \in 1..Len(chunks) : chunks[i] = t })
TextsOf(records) == { x.metadata.text : x \in records }

\* worker p has completed an ingestion of the same bytes, into the same
\* namespace of the same index, as the successful ingestion that returned
\* just before it began
SecondOfSame(p) ==
    /\ proc[p].op = "ingest" /\ proc[p].pc = "done"
    /\ lastIngest.pdf_bytes = proc[p].pdf_bytes
    /\ lastIngest.namespace = proc[p].namespace
    /\ lastIngest.index = proc[p].index

NewIds(p) == \A x \in proc[p].payload : \A y \in Before(p) : x.id # y.id

\* C8 as stated: the second of two successful ingestions of the same bytes
\* leaves every chunk text with as many records as after the first, under
\* new ids, for either value of replace_namespace.
C8_SecondIngestionSameCollection ==
    \A p \in Procs :
       SecondOfSame(p)
       => /\ \A t \in TextsOf(Now(p)) \cup TextsOf(Before(p)) :
                Count(Now(p), t) = Count(Before(p), t)
          /\ NewIds(p)

\* C8 amended: the ids of the second ingestion are new; when both calls run
\* with replace_namespace=True the collection of chunk texts is the same as
\* after the first; when the second runs with replace_namespace=False the
\* distinct texts are the same and every text gains one record per chunk
\* carrying it.
C8_SecondIngestionReplaceOrAppend ==
    \A p \in Procs :
       LET r == proc[p]
           texts == TextsOf(Now(p)) \cup TextsOf(Before(p))
       IN  SecondOfSame(p)
           => /\ NewIds(p)
              /\ (r.replace_namespace /\ lastIngest.replace_namespace)
                    => \A t \in texts : Count(Now(p), t) = Count(Before(p), t)
              /\ ~ r.replace_namespace
                    => /\ TextsOf(Now(p)) = TextsOf(Before(p))
                       /\ \A t \in texts :
                             Count(Now(p), t) = Count(Before(p), t) + ChunkCount(r.chunks, t)

\* C8 witness: the same document was ingested twice with replace_namespace=True
C8_Witness ==
    \E p \in Procs :
       /\ SecondOfSame(p)
       /\ proc[p].replace_namespace /\ lastIngest.replace_namespace
       /\ Before(p) # {} /\ Now(p) # Before(p)

\* C9: when two overlapping ingestions with replace_namespace=True into the
\* same namespace have both succeeded, the namespace holds records of these
\* two only, and all the records of at least one of them (it may hold the
\* records of both: C9_Witness).
C9_ConcurrentReplaceOutcome ==
    \A p, q \in Procs :
       (/\ p # q
        /\ proc[p].op = "ingest" /\ proc[p].pc = "done" /\ proc[p].replace_namespace
        /\ proc[q].op = "ingest" /\ proc[q].pc = "done" /\ proc[q].replace_namespace
        /\ proc[p].index = proc[q].index /\ proc[p].namespace = proc[q].namespace)
       => /\ Now(p) \subseteq proc[p].payload \cup proc[q].payload
          /\ proc[p].payload \subseteq Now(p) \/ proc[q].payload \subseteq Now(p)

\* C9 witness: both ingestions have succeeded and the namespace holds the
\* records of document A and of document B
C9_Witness ==
    \E p, q \in Procs :
       /\ proc[p].op = "ingest" /\ proc[p].pc = "done" /\ proc[p].pdf_bytes = DocA
       /\ proc[q].op = "ingest" /\ proc[q].pc = "done" /\ proc[q].pdf_bytes = DocB
       /\ proc[p].replace_namespace /\ proc[q].replace_namespace
       /\ proc[p].index = proc[q].index /\ proc[p].namespace = proc[q].namespace
       /\ Contains(proc[p].calls, "delete") /\ Contains(proc[q].calls, "delete")
       /\ proc[p].payload # {} /\ proc[q].payload # {}
       /\ Now(p) = proc[p].payload \cup proc[q].payload

\* C10: a delete that failed because the namespace does not exist is
\* swallowed and the ingestion goes on to embed and upsert; a delete that
\* failed for another reason is raised to the caller, with no embedding
\* request, no upsert, and the store as it was.
C10_DeleteFailureHandling ==
    \A p \in Procs :
       LET r == proc[p]
       IN  (r.op = "ingest" /\ r.msg # NoError)
           => IF r.msg \in NotFoundMessages
              THEN \/ r.pc \in {"embed", "upsert", "done"}
                   \/ r.pc = "failed" /\ LastCall(r) \in {"embed_documents", "upsert"}
              ELSE /\ r.pc = "failed" /\ r.error = r.msg
                   /\ LastCall(r) = "delete"
                   /\ ~ Contains(r.calls, "embed_documents")
                   /\ ~ Contains(r.calls, "upsert")
                   /\ data = r.before

\* C10 witness: the delete raised a bare 404 and the ingestion completed
C10_Witness ==
    \E p \in Procs :
       /\ proc[p].op = "ingest" /\ proc[p].pc = "done"
       /\ proc[p].msg = <<"(404)", "Reason: Not Found">>
       /\ Now(p) = proc[p].payload /\ proc[p].payload # {}

\* C12: once a probe request has succeeded (the cache is filled), the cached
\* dimension never changes, no call sends a probe request again, and every
\* call holds the cached dimension, whatever the provider returns now.
C12_ProbedOnceAndCached ==
    [][ dimCache # 0
        => /\ dimCache' = dimCache
           /\ \A p \in Procs :
                 /\ proc[p].pc # "probe" /\ proc'[p].pc # "probe"
                 /\ proc'[p].dimension # 0 => proc'[p].dimension = dimCache ]_vars

\* C12 witness: a retrieval took its dimension from the cache, without a
\* probe, while the provider returns vectors of another length
C12_Witness ==
    \E p \in Procs :
       /\ proc[p].op = "retrieve" /\ proc[p].pc = "list"
       /\ proc[p].calls = <<>>
       /\ proc[p].dimension = dimCache
       /\ providerDim # dimCache

\* the two copies of the name choice agree on every input
SameResolution ==
    \A d \in Dims, existing \in SUBSET IndexNames, existing_dim \in 0..MaxDim :
       retrieval_chosen_name(BaseName, d, existing, existing_dim)
          = ingest_chosen_name(BaseName, d, existing, existing_dim)

\* C11: a retrieval that follows a successful ingestion obtains a handle to
\* the index that ingestion wrote to, with the embedding dimension equal to
\* that index's dimension, and the two copies of the resolution agree.
C11_RetrievalResolvesToIngestedIndex ==
    /\ SameResolution
    /\ \A p \in Procs :
          (proc[p].op = "retrieve" /\ proc[p].index # <<>> /\ lastIngest # NoIngest)
          => /\ proc[p].index = lastIngest.index
             /\ proc[p].dimension = indexes[lastIngest.index]

=============================================================================
